---- MODULE Spec2Model ----
(***************************************************************************)
(* Pairing queue and session lifecycle of the StudyPartner cog             *)
(* (src/cogs/study_partner.py) over the storage module (src/storage.py).   *)
(* The ping cooldown of the PingHelper cog (src/cogs/ping_helper.py).      *)
(*                                                                         *)
(* Every coroutine of the cog runs on one asyncio event loop: the code     *)
(* between two awaits is atomic, and other handlers run while a handler    *)
(* is suspended in an await.  Each action below is one such atomic piece.  *)
(***************************************************************************)
EXTENDS Integers, Sequences, FiniteSets, TLC

\* ------------------------------------------------------------- bounds
NUsers == 3
MaxChans == 2
MaxFrames == 2
MaxRetries == 2
MaxMsgs == 3
SpecMsgs == 1
SweepMsgs == 2
RaceMsgs == 1
MaxCloses == 2
MaxNow == 301
MaxBoots == 1
BootMsgs == 2
MemoMsgs == 2
LiveMsgs == 2
ResolveMsgs == 1
FrameMsgs == 1
MaxEnq == 3
MaxPings == 2
PingMaxNow == 600

\* AUTO_CLOSE_SECONDS of the cog
AUTO_CLOSE_SECONDS == 300

Users == 1..NUsers
ChanIds == 1..MaxChans
CallIds == 1..MaxFrames
CloseIds == 1..MaxCloses

\* frame 0 is the _log_session call of cleaner_loop, frame k that of the
\* k-th close command in flight
LoggerIds == 0..MaxCloses

\* by how many seconds the clock moves between two events
TickSteps == {100, 101}

PingCallIds == 1..MaxPings

\* by how many seconds the clock moves between two ping events
PingSteps == {599, 600}

\* the author of the bot's own messages
Bot == 0

VARIABLES
    queue,      \* self.queue: deque of waiting user ids
    active,     \* self.active: text_channel_id -> meta (members, messages)
    gone,       \* meta dicts deleted from self.active, still referenced
    chans,      \* text channels that exist in the guild
    nextChan,   \* id the guild gives to the next created text channel
    nextMsg,    \* id the platform gives to the next message
    db,         \* what storage holds of the queue and the sessions
    calls,      \* findpartner invocations in flight, one frame each
    closes,     \* _log_session invocations in flight, one frame each
    sweep,      \* the cleaner_loop task
    history,    \* the messages of each existing text channel, oldest first
    now,        \* the clock, in seconds
    logsChan,   \* whether a text channel named findpartner-logs exists
    sink,       \* the transcripts sent to the logs channel, in order
    delreq,     \* the session channels whose deletion the cog requested
    ended,      \* the sessions whose closure has run to its end
    dropped,    \* the sessions cleaner_loop removed for a missing channel, each
                \* with the number of its cached messages
    swept,      \* what the running or last tick of cleaner_loop evaluated
    mode,       \* what the specification explores and records
    track,      \* whether returned findpartner calls are recorded
    last,       \* the findpartner call that returned last
    prev,       \* the findpartner call that returned before it
    waiting,    \* who was told they are queued and has since not withdrawn,
                \* been paired or been dropped as unresolvable, oldest first
    lastc,      \* the close command that returned last
    boot,       \* the last restart of the process: what the cog held before
                \* it and after it
    tally,      \* how often each user was enqueued, and how often each was
                \* the popped partner of a registered session
    pings,      \* PingHelper.ping invocations in flight, one frame each
    fired,      \* when each ping last mentioned its role, NoFire before that
    lastp       \* the ping invocation that returned last

vars == <<queue, active, gone, chans, nextChan, nextMsg, db, calls, closes, sweep,
          history, now, logsChan, sink, delreq, ended, dropped, swept,
          mode, track, last, prev, waiting, lastc, boot, tally, pings, fired, lastp>>

\* the PingHelper cog
pingv == <<pings, fired, lastp>>

hist == <<mode, track, last, prev, waiting, lastc, boot, tally>>

\* the platform side and the record of what closures did
plat == <<history, now, logsChan, sink, delreq, ended, dropped, swept>>

\* ------------------------------------------------------------ helpers
Range(s) == {s[i] : i \in 1..Len(s)}

RemoveAt(s, i) == SubSeq(s, 1, i - 1) \o SubSeq(s, i + 1, Len(s))

FirstIndex(s, x) == CHOOSE i \in 1..Len(s) : s[i] = x /\ \A j \in 1..(i - 1) : s[j] # x

Count(s, x) == Cardinality({i \in 1..Len(s) : s[i] = x})

Min(S) == CHOOSE x \in S : \A y \in S : x <= y

\* the elements of a set of ids in increasing order
RECURSIVE Sorted(_)
Sorted(S) == IF S = {} THEN <<>> ELSE <<Min(S)>> \o Sorted(S \ {Min(S)})

\* ------------------------------------------------------------ storage
\* storage.py defines none of load_queue, save_queue, load_sessions,
\* save_session, delete_session: each call raises AttributeError, which the
\* caller's "except Exception: pass" swallows.  What storage holds is not
\* changed by any of them, and loading yields nothing.
\* (pairing: the id of the pairing channel storage holds, NoChannel when
\* none is configured)
NoChannel == 0

\* ---------------------------------------------------- PingHelper, tables
\* the cooldown of PingHelper.ping, in seconds
PING_COOLDOWN == 600

\* time.time() when the process starts: seconds since 1970, more than a
\* cooldown; the clock `now` counts from the start of the process
Epoch == 1000

\* the channel the pings of subject "maths" are restricted to
HelpChannel == 12

NoPing == 0
NoRole == 0
NoFire == -1

\* the rows of table pings in the order get_subjects_for_guild reads them,
\* each with the name of its subject, its aliases and its main_role
PingRows == <<[subject |-> "maths", value |-> "math", aliases |-> {"m"}, role |-> 21],
              [subject |-> "physics", value |-> "phys", aliases |-> {}, role |-> 22]>>

PingIdx == 1..Len(PingRows)

\* column main_channel of table subjects, 0 when the subject has none
SubjectChannel(subject) == IF subject = "maths" THEN HelpChannel ELSE NoChannel

\* what users type after the prefix: values and aliases in lower case, for
\* which the three lookups of lines 207-208 read the same key, and a
\* token no ping has
Tokens == {"math", "m", "phys", "nope"}

\* _rebuild_maps: the keys of ping_map that lead to row i
PingKeys(i) == {PingRows[i].value} \cup PingRows[i].aliases

\* ping_map.get(token): the row the token leads to, a later row
\* overwriting an earlier one under the same key; NoPing without one
ping_map(token) ==
    LET hits == {i \in PingIdx : token \in PingKeys(i)}
    IN  IF hits = {} THEN NoPing ELSE CHOOSE i \in hits : \A j \in hits : j <= i

update_ping_time_skipped(times, subject, value, t) == times

\* storage.update_ping_time: last_time of every row of the first subject of
\* that name with that ping_value
update_ping_time(times, subject, value, t) ==
    [i \in PingIdx |-> IF PingRows[i].subject = subject /\ PingRows[i].value = value
                       THEN t ELSE times[i]]

\* lines 218-220: the ping's subject has a channel and this is not it
ChannelLimited(idx, ch) ==
    /\ SubjectChannel(PingRows[idx].subject) # NoChannel
    /\ ch # SubjectChannel(PingRows[idx].subject)

\* line 224: time.time() - last >= 600
CooledDown(t, lasttime) == t - lasttime >= PING_COOLDOWN

EmptyDb == [queue |-> <<>>, sessions |-> {}, pairing |-> NoChannel,
            last_time |-> [i \in PingIdx |-> 0]]

save_queue(d, q) == d

save_session(d, meta) == d

delete_session(d, sid) == d

load_queue(d) == <<>>

load_sessions(d) == <<>>

\* _get_config: storage.get_guild_config() is called without its required
\* guild_id, raises TypeError, and _get_config returns None.
NoConfig == "None"

get_config == NoConfig

\* ------------------------------------------------------- queue, registry
IsActiveMember_requesterOnly(u) == \E ch \in DOMAIN active : active[ch].members[1] = u

\* author.id in gdata.get("members", []) for some session of self.active
IsActiveMember(u) == \E ch \in DOMAIN active : u \in Range(active[ch].members)

InQueue_never(u, q) == FALSE

\* author.id in self.queue
InQueue(u, q) == u \in Range(q)

QueueRemove_skipped(q, u) == q

\* self.queue.remove(author.id): drops the first occurrence
QueueRemove(q, u) == RemoveAt(q, FirstIndex(q, u))

\* self.queue.popleft(): the head, and what stays
QueueHead(q) == Head(q)

QueuePopLeft_peek(q) == q

QueuePopLeft(q) == Tail(q)

\* self.queue.append(author.id)
QueueAppend(q, u) == Append(q, u)

NewMeta_waitingFirst(author, other, at) ==
    [members |-> <<other, author>>, created_at |-> at, messages |-> <<>>]

\* meta of a new session: members = [author.id, other.id], created_at the
\* current time, no messages
NewMeta(author, other, at) ==
    [members |-> <<author, other>>, created_at |-> at, messages |-> <<>>]

\* a message of the platform: its id, its creation time, its author
Msg(id, at, author) == [id |-> id, at |-> at, author |-> author]

\* self.active[text_chan.id] = meta
ActivePut(a, ch, meta) == [x \in DOMAIN a \cup {ch} |-> IF x = ch THEN meta ELSE a[x]]

ActiveDel_kept(a, ch) == a

\* "if sid in self.active: del self.active[sid]" (or del under try/except)
ActiveDel(a, ch) == [x \in DOMAIN a \ {ch} |-> a[x]]

\* the dict objects that left self.active: a handler that still holds one
\* reads it as it was when it left
GoneAfterDel(g, a, ch) ==
    IF ch \in DOMAIN a THEN [x \in DOMAIN g \cup {ch} |-> IF x = ch THEN a[ch] ELSE g[x]] ELSE g

\* the meta dict a handler holds for session sid
MetaOf(sid) == IF sid \in DOMAIN active THEN active[sid] ELSE gone[sid]

\* ------------------------------------------------------------- frames
IdleFrame == [pc |-> "idle", author |-> 0, ch |-> 0, other |-> 0, chan |-> 0, q0 |-> <<>>, a0 |-> <<>>, d0 |-> EmptyDb,
              w0 |-> <<>>, stale |-> {}, retries |-> 0]

NoCall == [author |-> 0, ch |-> 0, out |-> "NONE", q0 |-> <<>>, q1 |-> <<>>, a0 |-> <<>>, a1 |-> <<>>,
           d0 |-> EmptyDb, d1 |-> EmptyDb, w0 |-> <<>>, stale |-> {},
           retries |-> 0, mem |-> <<>>]

\* what a close command remembers of its start, when commands are recorded
NoRec == [author |-> 0, ch |-> 0, perm |-> FALSE, a0 |-> <<>>, c0 |-> {}, s0 |-> <<>>,
          r0 |-> {}]

\* no _log_session call in the frame
IdleClose == [pc |-> "idle", sid |-> 0, members |-> <<>>, lines |-> <<>>, cached |-> {},
              hadChan |-> FALSE, reason |-> "", rec |-> NoRec]

IdleSweep == [pc |-> "idle", todo |-> <<>>, sid |-> 0, at |-> 0]

\* no tick of cleaner_loop yet
NoTick == [at |-> 0, start |-> {}, seen |-> {}, judged |-> {}, done |-> TRUE,
           before |-> <<>>, fresh |-> {}]

\* no handler is suspended in an await
Quiet ==
    /\ \A c \in CallIds : calls[c].pc = "idle"
    /\ \A k \in LoggerIds : closes[k].pc = "idle"
    /\ sweep.pc = "idle"

\* no restart yet
NoBoot == [n |-> 0, q0 |-> <<>>, q1 |-> <<>>, a0 |-> <<>>, a1 |-> <<>>, c0 |-> {}, c1 |-> {},
           e0 |-> {}]

\* nobody was enqueued, nobody was popped
NoTally == [enq |-> [u \in Users |-> 0], deq |-> [u \in Users |-> 0]]

\* self.queue.append(author.id) was run for u
Enqueued(t, u) == [t EXCEPT !.enq[u] = @ + 1]

\* u, popped from the queue, is the partner of a session now registered
Dequeued(t, u) == [t EXCEPT !.deq[u] = @ + 1]

RECURSIVE Sum(_, _)
Sum(f, S) == IF S = {} THEN 0 ELSE LET x == CHOOSE y \in S : TRUE IN f[x] + Sum(f, S \ {x})

TotalEnqueued(t) == Sum(t.enq, Users)

\* The call of frame c returns (or raises) with outcome out: the frame is
\* freed and, when calls are recorded, the call is recorded with the queue
\* the sessions and the storage it started from and ends with.
Without(w, S) == SelectSeq(w, LAMBDA x : x \notin S)

\* the waiting participants after call f returned out: the heads it dropped
\* as unresolvable leave, a queued requester joins at the end unless already
\* waiting, a withdrawing requester leaves, a paired requester and partner
\* leave; a failed call takes nobody out.
WaitingAfter(w, f, out) ==
    CASE out = "QUEUED" ->
            IF f.author \in Range(w) /\ f.author \notin f.stale
            THEN Without(w, f.stale)
            ELSE Append(Without(w, f.stale), f.author)
      [] out = "TOGGLED_OFF" -> Without(w, f.stale \cup {f.author})
      [] out = "PAIRED" -> Without(w, f.stale \cup {f.author, f.other})
      [] OTHER -> Without(w, f.stale)

Return(c, f, out, q1, a1, d1, mem) ==
    /\ calls' = [calls EXCEPT ![c] = IdleFrame]
    /\ track' = track
    /\ mode' = mode
    /\ waiting' = IF track THEN WaitingAfter(waiting, f, out) ELSE waiting
    /\ prev' = IF track THEN last ELSE prev
    /\ lastc' = lastc
    /\ boot' = boot
    /\ UNCHANGED pingv
    /\ tally' = IF mode.tally /\ out = "QUEUED" THEN Enqueued(tally, f.author) ELSE tally
    /\ last' = IF track
               THEN [author |-> f.author, ch |-> f.ch, out |-> out, q0 |-> f.q0, q1 |-> q1,
                     a0 |-> f.a0, a1 |-> a1, d0 |-> f.d0, d1 |-> d1,
                     w0 |-> f.w0, stale |-> f.stale,
                     retries |-> f.retries, mem |-> mem]
               ELSE last

\* findpartner from its first line to its first await, for the frame f of
\* call c (a new call, or the retry "return await self.findpartner(ctx)"),
\* with q the queue it finds.
\* cached: whether guild.get_member(other_id) finds the popped head.
Enter(c, f, q, cached) ==
    IF IsActiveMember(f.author)
    THEN \* lines 158-161: "You're already in an active study session."
         /\ queue' = q
         /\ Return(c, f, "ALREADY_ACTIVE", q, active, db, <<>>)
         /\ UNCHANGED <<active, gone, chans, nextChan, nextMsg, db, closes, sweep, plat>>
    ELSE IF InQueue(f.author, q)
    THEN \* lines 163-174: toggle off, then await ctx.reply
         /\ queue' = QueueRemove(q, f.author)
         /\ calls' = [calls EXCEPT ![c] = [f EXCEPT !.pc = "withdraw_reply"]]
         /\ UNCHANGED <<active, gone, chans, nextChan, nextMsg, db, closes, sweep, plat, hist, pingv>>
    ELSE IF q # <<>>
    THEN \* lines 182-188: pop the head, resolve it as a member
         /\ queue' = QueuePopLeft(q)
         /\ calls' = [calls EXCEPT ![c] =
                [f EXCEPT !.pc = IF cached THEN "category" ELSE "fetch",
                          !.other = QueueHead(q)]]
         /\ UNCHANGED <<active, gone, chans, nextChan, nextMsg, db, closes, sweep, plat, hist, pingv>>
    ELSE \* lines 241-255: enqueue, save, reply
         /\ queue' = QueueAppend(q, f.author)
         /\ db' = save_queue(db, QueueAppend(q, f.author))
         /\ Return(c, f, "QUEUED", QueueAppend(q, f.author), active,
                   save_queue(db, QueueAppend(q, f.author)), <<>>)
         /\ UNCHANGED <<active, gone, chans, nextChan, nextMsg, closes, sweep, plat>>

\* A member of the guild, not a bot, sends the findpartner command; the call
\* takes the first free frame (frames are interchangeable).
FindpartnerBegin(c, u, cached) ==
    /\ calls[c].pc = "idle"
    /\ \A d \in 1..(c - 1) : calls[d].pc # "idle"
    /\ mode.tally => TotalEnqueued(tally) < MaxEnq
    /\ Enter(c, [IdleFrame EXCEPT !.author = u,
                                  !.q0 = IF track THEN queue ELSE <<>>,
                                  !.a0 = IF track THEN active ELSE <<>>,
                                  !.d0 = db,
                                  !.w0 = waiting], queue, cached)

\* lines 141-144: there is a config, it names a pairing channel, and the
\* command was sent in another channel
ChannelRefused(conf, ch) ==
    /\ conf # NoConfig
    /\ conf.pairing # NoChannel
    /\ ch # conf.pairing

\* findpartner sent by u in channel ch of the guild: refused there with a
\* reply (lines 145-151), or run as above
FindpartnerIn(c, u, ch, cached) ==
    /\ calls[c].pc = "idle"
    /\ \A d \in 1..(c - 1) : calls[d].pc # "idle"
    /\ LET f == [IdleFrame EXCEPT !.author = u,
                                  !.ch = ch,
                                  !.q0 = IF track THEN queue ELSE <<>>,
                                  !.a0 = IF track THEN active ELSE <<>>,
                                  !.d0 = db,
                                  !.w0 = waiting]
       IN IF ChannelRefused(get_config, ch)
          THEN /\ Return(c, f, "WRONG_CHANNEL", queue, active, db, <<>>)
               /\ UNCHANGED <<queue, active, gone, chans, nextChan, nextMsg, db, closes,
                              sweep, plat>>
          ELSE Enter(c, f, queue, cached)

\* lines 136-138 and 154-155: outside a guild, or sent by a bot: nothing
\* is read or changed.
FindpartnerIgnored(inGuild, isBot) ==
    /\ ~inGuild \/ isBot
    /\ UNCHANGED vars

\* line 188: await guild.fetch_member(other_id) returns the member
FetchOk(c) ==
    /\ calls[c].pc = "fetch"
    /\ calls' = [calls EXCEPT ![c].pc = "category"]
    /\ UNCHANGED <<queue, active, gone, chans, nextChan, nextMsg, db, closes, sweep, plat, hist, pingv>>

StaleHead_requeueTail(q, other) == Append(q, other)

StaleHead_requeueHead(q, other) == <<other>> \o q

\* what the except branch of lines 189-191 does with the popped head that
\* could not be fetched: nothing, it stays out of the queue
StaleHead(q, other) == q

\* lines 189-191: fetch_member raises: the popped head is dropped and the
\* command runs again from its first line
FetchFail(c, cached) ==
    /\ calls[c].pc = "fetch"
    /\ calls[c].retries < MaxRetries
    /\ Enter(c, [calls[c] EXCEPT !.retries = IF track THEN @ + 1 ELSE @,
                                 !.stale = IF track THEN @ \cup {calls[c].other} ELSE @,
                                 !.other = 0],
             StaleHead(queue, calls[c].other), cached)

\* line 194: await self._get_or_create_category(guild); with no config it
\* awaits guild.create_category, and falls back to the invoking channel's
\* category when that raises
GetOrCreateCategory(c) ==
    /\ calls[c].pc = "category"
    /\ calls' = [calls EXCEPT ![c].pc = "create"]
    /\ UNCHANGED <<queue, active, gone, chans, nextChan, nextMsg, db, closes, sweep, plat, hist, pingv>>

\* lines 208-228: create_text_channel returns; the session is registered,
\* and the call waits for the reaction and for the greeting to be sent
CreateOk(c) ==
    /\ calls[c].pc = "create"
    /\ nextChan <= mode.chans
    /\ LET f == calls[c]
           meta == NewMeta(f.author, f.other, now)
       IN /\ active' = ActivePut(active, nextChan, meta)
          /\ chans' = chans \cup {nextChan}
          /\ nextChan' = nextChan + 1
          /\ db' = save_session(db, meta)
          /\ history' = ActivePut(history, nextChan, <<>>)
          /\ calls' = [calls EXCEPT ![c] = [f EXCEPT !.pc = "greet", !.chan = nextChan]]
          /\ tally' = IF mode.tally THEN Dequeued(tally, f.other) ELSE tally
    /\ UNCHANGED <<queue, gone, nextMsg, closes, sweep,
                   now, logsChan, sink, delreq, ended, dropped, swept,
                   mode, track, last, prev, waiting, lastc, boot, pingv>>

\* lines 228-237: the greeting is posted in the new channel (greeted), or
\* that send raises; either way the call is over
Greet(c, greeted) ==
    /\ calls[c].pc = "greet"
    /\ greeted => (calls[c].chan \in chans /\ nextMsg <= mode.msgs)
    /\ LET f == calls[c]
       IN /\ history' = IF greeted
                         THEN [history EXCEPT ![f.chan] = Append(@, Msg(nextMsg, now, Bot))]
                         ELSE history
          /\ nextMsg' = IF greeted THEN nextMsg + 1 ELSE nextMsg
          /\ Return(c, f, "PAIRED", queue, active, db, <<f.author, f.other>>)
    /\ UNCHANGED <<queue, active, gone, chans, nextChan, db, closes, sweep,
                   now, logsChan, sink, delreq, ended, dropped, swept>>

\* lines 208-210: create_text_channel raises; nothing catches it
CreateFail(c) ==
    /\ calls[c].pc = "create"
    /\ Return(c, calls[c], "FAILED", queue, active, db, <<>>)
    /\ UNCHANGED <<queue, active, gone, chans, nextChan, nextMsg, db, closes, sweep, plat>>

\* lines 174-179: ctx.reply returns (then save_queue), or raises
WithdrawReply(c, replied) ==
    /\ calls[c].pc = "withdraw_reply"
    /\ db' = IF replied THEN save_queue(db, queue) ELSE db
    /\ Return(c, calls[c], "TOGGLED_OFF", queue, active,
              IF replied THEN save_queue(db, queue) ELSE db, <<>>)
    /\ UNCHANGED <<queue, active, gone, chans, nextChan, nextMsg, closes, sweep, plat>>

\* ---------------------------------------------------------- on_message
\* lines 441-460: a member's message in channel ch; the platform keeps it
\* in the channel, the listener caches it in the session of that channel,
\* if it is active, and saves the session
on_message(ch, u) ==
    /\ ch \in chans
    /\ nextMsg <= mode.msgs
    /\ nextMsg' = nextMsg + 1
    /\ history' = [history EXCEPT ![ch] = Append(@, Msg(nextMsg, now, u))]
    /\ IF ch \in DOMAIN active
       THEN LET meta == [active[ch] EXCEPT
                            !.messages = Append(@, Msg(nextMsg, now, u))]
            IN /\ active' = [active EXCEPT ![ch] = meta]
               /\ db' = save_session(db, meta)
       ELSE UNCHANGED <<active, db>>
    /\ UNCHANGED <<queue, gone, chans, nextChan, calls, closes, sweep,
                   now, logsChan, sink, delreq, ended, dropped, swept, hist, pingv>>

\* a text channel is deleted by somebody else than the cog
ExternalDelete(ch) ==
    /\ ch \in chans
    /\ chans' = chans \ {ch}
    /\ history' = ActiveDel(history, ch)
    /\ UNCHANGED <<queue, active, gone, nextChan, nextMsg, db, calls, closes, sweep,
                   now, logsChan, sink, delreq, ended, dropped, swept, hist, pingv>>

\* time passes
Tick(d) ==
    /\ now + d <= MaxNow
    /\ now' = now + d
    /\ UNCHANGED <<queue, active, gone, chans, nextChan, nextMsg, db, calls, closes, sweep,
                   history, logsChan, sink, delreq, ended, dropped, swept, hist, pingv>>

\* -------------------------------------------------------- _log_session
\* a line of a transcript: the message it renders and where it was read
\* from (line 344 renders cached messages, line 355 those of the history)
Line(m, src) == [id |-> m.id, src |-> src]

\* lines 337-344: one line per cached message, in the order of the cache
CachedLines(meta) == [i \in 1..Len(meta.messages) |-> Line(meta.messages[i], "cached")]

\* line 348
CachedIds(meta) == {meta.messages[i].id : i \in 1..Len(meta.messages)}

HistoryLines_all(h, ids) == [i \in 1..Len(h) |-> Line(h[i], "history")]

\* lines 352-355: the messages of the channel, oldest first, that are not
\* cached (the channels here hold fewer messages than one page of history,
\* so the iteration gives all of them or raises before the first)
HistoryLines(h, ids) ==
    LET new == SelectSeq(h, LAMBDA m : m.id \notin ids)
    IN [i \in 1..Len(new) |-> Line(new[i], "history")]

Reason_manual == "manual"

\* line 301
Reason_close == "Closed by command"

\* line 521
Reason_sweep == "Auto-closed due to inactivity"

\* lines 384-407: what is sent to the logs channel: the header names the
\* members, the heading the reason, the body is the lines
\* With it is recorded what on_message has appended to the session up to
\* this moment, in which the cleanup takes the session out of the registry
\* (lines 423-427).
Transcript(fr, ids) ==
    [sid |-> fr.sid, members |-> fr.members, reason |-> fr.reason, lines |-> fr.lines,
     captured |-> ids]

\* the ids of the messages in the session dict the _log_session call of
\* frame fr holds: those of the registry entry, once the entry is deleted
\* those it had when it was deleted, at least those the call started with
CapturedFor(fr) ==
    IF fr.sid \in DOMAIN active \cup DOMAIN gone
    THEN CachedIds(MetaOf(fr.sid))
    ELSE fr.cached

\* lines 381-382: without a logs channel or without a line, return
PcAfterLogs(lines, has) == IF ~has \/ lines = <<>> THEN "return" ELSE "send"

\* lines 359-379: the logs channel is the text channel named
\* findpartner-logs (there is no config), created when there is none
PcAfterHistory(lines) == IF logsChan THEN PcAfterLogs(lines, TRUE) ELSE "mklog"

\* _log_session from its first line to its first await, lines 326-352
LogEnter(sid, meta, reason, rec) ==
    [pc |-> IF sid \in chans THEN "hist" ELSE PcAfterHistory(CachedLines(meta)),
     sid |-> sid,
     members |-> meta.members,
     lines |-> CachedLines(meta),
     cached |-> CachedIds(meta),
     hadChan |-> sid \in chans,
     reason |-> reason,
     rec |-> rec]

NoClose == [author |-> 0, ch |-> 0, perm |-> FALSE, out |-> "NONE", sid |-> 0,
            a0 |-> <<>>, a1 |-> <<>>, c0 |-> {}, c1 |-> {}, s0 |-> <<>>, s1 |-> <<>>,
            r0 |-> {}, r1 |-> {}]

\* (no step that ends a close command changes the deletions requested)
ClosedRec(rec, out, sid, a1, c1, s1) ==
    [author |-> rec.author, ch |-> rec.ch, perm |-> rec.perm, out |-> out, sid |-> sid,
     a0 |-> rec.a0, a1 |-> a1, c0 |-> rec.c0, c1 |-> c1, s0 |-> rec.s0, s1 |-> s1,
     r0 |-> rec.r0, r1 |-> delreq]

\* the dropped dicts the loop still refers to; the others are garbage
Referenced(g, sw) ==
    LET refs == {sw.sid} \cup Range(sw.todo)
    IN [x \in DOMAIN g \cap refs |-> g[x]]

\* -------------------------------------------------------- cleaner_loop
\* line 507
IdleFor(at, last_ts) == at - last_ts

StillActive_never(elapsed) == FALSE

StillActive_always(elapsed) == TRUE

StillActive_inclusive(elapsed) == elapsed <= AUTO_CLOSE_SECONDS

\* line 508: "still active"
StillActive(elapsed) == elapsed < AUTO_CLOSE_SECONDS

\* the tick has judged session sid by its last activity last_ts; meta is
\* its dict as the loop read it at lines 482-483
Judged(sw, sid, meta, last_ts) ==
    [sw EXCEPT !.judged = @ \cup {[sid |-> sid, last |-> last_ts,
                                   created |-> meta.created_at, msgs |-> meta.messages,
                                   close |-> ~StillActive(IdleFor(sw.at, last_ts))]}]

SweepFrom_stopsEarly(todo, a, g, sw, dr) ==
    [a |-> a, g |-> g, fr |-> IdleSweep, sw |-> [sw EXCEPT !.done = TRUE], dr |-> dr]

\* the loop of lines 472-528 from the sessions todo up to its next await,
\* or to its end.  Yields the registry, the dropped dicts, the task, and the
\* record of the tick.
RECURSIVE SweepFrom(_, _, _, _, _)
SweepFrom(todo, a, g, sw, dr) ==
    IF todo = <<>>
    THEN [a |-> a, g |-> g, fr |-> IdleSweep, sw |-> [sw EXCEPT !.done = TRUE], dr |-> dr]
    ELSE LET sid == Head(todo)
             meta == IF sid \in DOMAIN a THEN a[sid] ELSE g[sid]
             seen == [sw EXCEPT !.seen = @ \cup {sid}]
         IN IF sid \notin chans
            THEN \* lines 474-479: the channel is gone
                 SweepFrom(Tail(todo), ActiveDel(a, sid), g, seen,
                           IF sid \in DOMAIN a THEN dr \cup {<<sid, Len(meta.messages)>>}
                           ELSE dr)
            ELSE IF meta.messages = <<>>
            THEN \* lines 486-489: await text_chan.history(limit=1)
                 [a |-> a, g |-> g, sw |-> seen, dr |-> dr,
                  fr |-> [pc |-> "history", todo |-> Tail(todo), sid |-> sid, at |-> sw.at]]
            ELSE LET last_ts == meta.messages[Len(meta.messages)].at
                 IN IF StillActive(IdleFor(sw.at, last_ts))
                    THEN \* lines 507-510
                         SweepFrom(Tail(todo), a, g, Judged(seen, sid, meta, last_ts), dr)
                    ELSE \* lines 513-514: await text_chan.send
                         [a |-> a, g |-> g, sw |-> Judged(seen, sid, meta, last_ts), dr |-> dr,
                          fr |-> [pc |-> "notice", todo |-> Tail(todo), sid |-> sid,
                                  at |-> sw.at]]

SweepGoesOn(todo, a, g, sw) ==
    LET r == SweepFrom(todo, a, g, sw, dropped)
    IN /\ active' = r.a
       /\ sweep' = r.fr
       /\ gone' = Referenced(r.g, r.fr)
       /\ swept' = IF mode.watch THEN r.sw ELSE swept
       /\ dropped' = IF mode.watch THEN r.dr ELSE dropped

CloseRemoves_skipped(a, sid) == a

\* close, lines 307-312: if session_id in self.active: del
CloseRemoves(a, sid) == ActiveDel(a, sid)

\* The step of _log_session call k that leaves its frame as fr, the
\* registry as a and the dropped dicts as g (c1 and s1: the channels and
\* the sink after the step): when _log_session has returned, its caller
\* goes on to its end or to its next await.
Proceed(k, fr, a, g, c1, s1) ==
    IF fr.pc \notin {"return", "done"}
    THEN /\ closes' = [closes EXCEPT ![k] = fr]
         /\ active' = a
         /\ sweep' = IF k = 0 THEN [sweep EXCEPT !.pc = "log"] ELSE sweep
         /\ gone' = Referenced(g, sweep')
         /\ UNCHANGED <<ended, dropped, swept, lastc>>
    ELSE IF k = 0
    THEN \* cleaner_loop, lines 524-528, and on with the loop
         /\ closes' = [closes EXCEPT ![k] = IdleClose]
         /\ ended' = IF mode.watch THEN ended \cup {<<fr.sid, "sweep">>} ELSE ended
         /\ SweepGoesOn(sweep.todo, ActiveDel(a, fr.sid), GoneAfterDel(g, a, fr.sid), swept)
         /\ UNCHANGED lastc
    ELSE \* close, lines 307-317; the reply of line 315 is posted when the
         \* session has left the registry, and is kept out of the histories
         /\ closes' = [closes EXCEPT ![k] = IdleClose]
         /\ ended' = IF mode.watch THEN ended \cup {<<fr.sid, "close">>} ELSE ended
         /\ active' = CloseRemoves(a, fr.sid)
         /\ gone' = Referenced(GoneAfterDel(g, a, fr.sid), sweep)
         /\ lastc' = IF mode.rec
                     THEN ClosedRec(fr.rec, "CLOSED", fr.sid, CloseRemoves(a, fr.sid), c1, s1)
                     ELSE lastc
         /\ UNCHANGED <<sweep, dropped, swept>>

\* lines 352-357 and on to the next await: the history of the channel
\* arrives (ok), or the iteration raises
LogHistory(k, ok) ==
    /\ closes[k].pc = "hist"
    /\ LET f == closes[k]
           more == IF ok /\ f.sid \in chans THEN HistoryLines(history[f.sid], f.cached)
                   ELSE <<>>
           lines == f.lines \o more
       IN Proceed(k, [f EXCEPT !.lines = lines, !.pc = PcAfterHistory(lines)],
                  active, gone, chans, sink)
    /\ UNCHANGED <<queue, chans, nextChan, nextMsg, db, calls,
                   history, now, logsChan, sink, delreq, mode, track, last, prev, waiting,
                   boot, tally, pingv>>

\* lines 377-382: create_text_channel for the logs channel returns or raises
LogMkChan(k, ok) ==
    /\ closes[k].pc = "mklog"
    /\ logsChan' = (logsChan \/ ok)
    /\ LET f == closes[k]
       IN Proceed(k, [f EXCEPT !.pc = PcAfterLogs(f.lines, ok)], active, gone, chans, sink)
    /\ UNCHANGED <<queue, chans, nextChan, nextMsg, db, calls,
                   history, now, sink, delreq, mode, track, last, prev, waiting,
                   boot, tally, pingv>>

\* lines 406-435: the transcript is sent (delivered), or the send and its
\* fallback raise; then the cleanup, and the request to delete the channel
LogSend(k, delivered) ==
    /\ closes[k].pc = "send"
    /\ LET f == closes[k]
           s1 == IF delivered /\ mode.watch THEN Append(sink, Transcript(f, CapturedFor(f))) ELSE sink
       IN /\ sink' = s1
          /\ db' = delete_session(db, f.sid)
          /\ delreq' = IF f.hadChan /\ mode.watch THEN delreq \cup {f.sid} ELSE delreq
          /\ Proceed(k, [f EXCEPT !.pc = IF f.hadChan THEN "delete" ELSE "done"],
                     ActiveDel(active, f.sid), GoneAfterDel(gone, active, f.sid), chans, s1)
    /\ UNCHANGED <<queue, chans, nextChan, nextMsg, calls,
                   history, now, logsChan, mode, track, last, prev, waiting,
                   boot, tally, pingv>>

\* lines 433-437: text_chan.delete() returns (ok) or raises
LogDelete(k, ok) ==
    /\ closes[k].pc = "delete"
    /\ ok => closes[k].sid \in chans
    /\ LET f == closes[k]
           c1 == IF ok THEN chans \ {f.sid} ELSE chans
       IN /\ chans' = c1
          /\ history' = IF ok THEN ActiveDel(history, f.sid) ELSE history
          /\ Proceed(k, [f EXCEPT !.pc = "done"], active, gone, c1, sink)
    /\ UNCHANGED <<queue, nextChan, nextMsg, db, calls,
                   now, logsChan, sink, delreq, mode, track, last, prev, waiting,
                   boot, tally, pingv>>

\* --------------------------------------------------------------- close
ResolveSession_memberFirst(u, ch) ==
    LET mine == {s \in DOMAIN active : u \in Range(active[s].members)}
    IN IF mine # {} THEN Min(mine)
       ELSE IF ch \in DOMAIN active THEN ch ELSE 0

\* lines 271-287: the session of the invoking channel, else the first
\* session (in insertion order) the invoker is a member of; 0 for none
ResolveSession(u, ch) ==
    IF ch \in DOMAIN active THEN ch
    ELSE LET mine == {s \in DOMAIN active : u \in Range(active[s].members)}
         IN IF mine # {} THEN Min(mine) ELSE 0

MayClose_anyone(u, sid, perm) == TRUE

\* line 294: a member of the session, or manage_channels
MayClose(u, sid, perm) == u \in Range(active[sid].members) \/ perm

\* lines 266-303 and _log_session to its first await: close sent by u in
\* channel ch (0: a channel that is no session channel), perm: u has
\* manage_channels, replied: the refusal is posted in the channel
CloseBegin(k, u, ch, perm, replied) ==
    /\ closes[k].pc = "idle"
    /\ k <= mode.closes
    /\ \A d \in 1..(k - 1) : closes[d].pc # "idle"
    /\ ch \in chans \cup {0}
    /\ LET sid == ResolveSession(u, ch)
           rec == IF mode.rec
                  THEN [author |-> u, ch |-> ch, perm |-> perm,
                        a0 |-> active, c0 |-> chans, s0 |-> sink, r0 |-> delreq]
                  ELSE NoRec
       IN IF sid = 0
          THEN \* lines 289-291
               /\ replied
               /\ lastc' = IF mode.rec
                           THEN ClosedRec(rec, "NOT_FOUND", 0, active, chans, sink)
                           ELSE lastc
               /\ UNCHANGED <<active, gone, closes, sweep, ended, dropped, swept,
                              history, nextMsg>>
          ELSE IF ~MayClose(u, sid, perm)
          THEN \* lines 294-296
               /\ replied => (ch \in chans /\ nextMsg <= mode.msgs)
               /\ history' = IF replied
                             THEN [history EXCEPT ![ch] = Append(@, Msg(nextMsg, now, Bot))]
                             ELSE history
               /\ nextMsg' = IF replied THEN nextMsg + 1 ELSE nextMsg
               /\ lastc' = IF mode.rec
                           THEN ClosedRec(rec, "UNAUTHORIZED", sid, active, chans, sink)
                           ELSE lastc
               /\ UNCHANGED <<active, gone, closes, sweep, ended, dropped, swept>>
          ELSE /\ replied
               /\ Proceed(k, LogEnter(sid, active[sid], Reason_close, rec),
                          active, gone, chans, sink)
               /\ UNCHANGED <<history, nextMsg>>
    /\ UNCHANGED <<queue, chans, nextChan, db, calls,
                   now, logsChan, sink, delreq, mode, track, last, prev, waiting,
                   boot, tally, pingv>>

\* the time of the last message cached in a session, without one the time
\* of its creation
LastActivityAt(meta) ==
    IF meta.messages # <<>> THEN meta.messages[Len(meta.messages)].at ELSE meta.created_at

\* the sessions of the registry a whose channel exists and that have been
\* idle for less than AUTO_CLOSE_SECONDS at time t
FreshSessions(a, t) ==
    {sid \in DOMAIN a \cap chans : IdleFor(t, LastActivityAt(a[sid])) < AUTO_CLOSE_SECONDS}

\* the last_ts of the latest judgement of each session of the registry a,
\* after the tick recorded in sw
LastJudged(sw, a) ==
    LET now_judged == {j.sid : j \in sw.judged}
    IN [sid \in (DOMAIN sw.before \cup now_judged) \cap DOMAIN a |->
            IF sid \in now_judged
            THEN (CHOOSE j \in sw.judged : j.sid = sid).last
            ELSE sw.before[sid]]

\* -------------------------------------------------- cleaner_loop, steps
\* lines 470-472: a tick of the loop, over list(self.active.items())
SweepBegin ==
    /\ sweep.pc = "idle"
    /\ SweepGoesOn(Sorted(DOMAIN active), active, gone,
                   [at |-> now, start |-> DOMAIN active, seen |-> {}, judged |-> {},
                    done |-> FALSE,
                    before |-> IF mode.memo THEN LastJudged(swept, active) ELSE <<>>,
                    fresh |-> IF mode.memo THEN FreshSessions(active, now) ELSE {}])
    /\ UNCHANGED <<queue, chans, nextChan, nextMsg, db, calls, closes,
                   history, now, logsChan, sink, delreq, ended, hist, pingv>>

\* lines 487-510: the newest message of the channel arrives (ok), or the
\* iteration raises or finds nothing and created_at is taken
SweepHistory(ok) ==
    /\ sweep.pc = "history"
    /\ ok => (sweep.sid \in chans /\ history[sweep.sid] # <<>>)
    /\ LET sid == sweep.sid
           meta == MetaOf(sid)
           last_ts == IF ok THEN history[sid][Len(history[sid])].at ELSE meta.created_at
           sw == Judged(swept, sid, [meta EXCEPT !.messages = <<>>], last_ts)
       IN IF StillActive(IdleFor(sweep.at, last_ts))
          THEN SweepGoesOn(sweep.todo, active, gone, sw)
          ELSE /\ sweep' = [sweep EXCEPT !.pc = "notice"]
               /\ swept' = IF mode.watch THEN sw ELSE swept
               /\ UNCHANGED <<active, gone, dropped>>
    /\ UNCHANGED <<queue, chans, nextChan, nextMsg, db, calls, closes,
                   history, now, logsChan, sink, delreq, ended, hist, pingv>>

\* lines 513-521: the notice is posted in the channel (ok), or the send
\* raises; then _log_session runs to its first await
SweepNotice(ok) ==
    /\ sweep.pc = "notice"
    /\ ok => (sweep.sid \in chans /\ nextMsg <= mode.msgs)
    /\ history' = IF ok
                  THEN [history EXCEPT ![sweep.sid] = Append(@, Msg(nextMsg, now, Bot))]
                  ELSE history
    /\ nextMsg' = IF ok THEN nextMsg + 1 ELSE nextMsg
    /\ Proceed(0, LogEnter(sweep.sid, MetaOf(sweep.sid), Reason_sweep, NoRec),
               active, gone, chans, sink)
    /\ UNCHANGED <<queue, chans, nextChan, db, calls,
                   now, logsChan, sink, delreq, mode, track, last, prev, waiting,
                   boot, tally, pingv>>

\* ---------------------------------------------------------- PingHelper
\* time.time()
Clock == Epoch + now

\* what PingHelper.ping leaves alone: the StudyPartner cog and the guild
cogv == <<queue, active, gone, chans, nextChan, nextMsg, calls, closes, sweep,
          history, logsChan, sink, delreq, ended, dropped, swept,
          mode, track, last, prev, waiting, lastc, boot, tally>>

IdlePing == [pc |-> "idle", via |-> "", token |-> "", idx |-> NoPing, ch |-> NoChannel,
             began |-> 0, seen |-> NoFire, stored |-> 0]

NoPingCall == [via |-> "", token |-> "", idx |-> NoPing, ch |-> NoChannel, began |-> 0,
               seen |-> NoFire, outcome |-> "", mention |-> NoRole,
               stored0 |-> 0, stored1 |-> 0]

InitPings ==
    /\ pings = [c \in PingCallIds |-> IdlePing]
    /\ fired = [i \in PingIdx |-> NoFire]
    /\ lastp = NoPingCall

\* the invocation of frame f returns: what it replied, the role it
\* mentioned and last_time of its ping after it
PingReturn(c, f, outcome, role, stored) ==
    /\ pings' = [pings EXCEPT ![c] = IdlePing]
    /\ lastp' = [via |-> f.via, token |-> f.token, idx |-> f.idx, ch |-> f.ch,
                 began |-> f.began, seen |-> f.seen, outcome |-> outcome,
                 mention |-> role, stored0 |-> f.stored, stored1 |-> stored]

\* A user sends !ping <token>, /ping <token> (via "command") or !<token>
\* (via "shortcut", on_message lines 262-285, which looks the token up and
\* calls ping) in channel ch.  Lines 200-260 up to the first await: the
\* subjects are read from storage, the token is looked up, the channel and
\* the cooldown are checked; an unknown token, a ping outside its channel
\* and a ping on cooldown are answered and the call returns.
PingBegin(c, via, token, ch) ==
    /\ pings[c].pc = "idle"
    /\ LET idx == ping_map(token)
           f == [pc |-> "send", via |-> via, token |-> token, idx |-> idx, ch |-> ch,
                 began |-> Clock,
                 seen |-> IF idx = NoPing THEN NoFire ELSE fired[idx],
                 stored |-> IF idx = NoPing THEN 0 ELSE db.last_time[idx]]
       IN  IF idx = NoPing
           THEN PingReturn(c, f, "unknown", NoRole, f.stored)
           ELSE IF ChannelLimited(idx, ch)
           THEN PingReturn(c, f, "channel", NoRole, f.stored)
           ELSE IF CooledDown(Clock, db.last_time[idx])
           THEN /\ pings' = [pings EXCEPT ![c] = f]
                /\ UNCHANGED lastp
           ELSE PingReturn(c, f, "cooldown", NoRole, f.stored)
    /\ UNCHANGED <<db, now, fired, cogv>>

\* lines 235-251: ctx.send returns, or raises and the ctx.reply of the
\* fallback returns, and the time is stored; or the fallback raises too and
\* the call ends without storing anything
PingSent(c, how) ==
    /\ pings[c].pc = "send"
    /\ LET f == pings[c]
           row == PingRows[f.idx]
       IN  IF how = "raised"
           THEN /\ PingReturn(c, f, "raised", NoRole, db.last_time[f.idx])
                /\ UNCHANGED <<db, fired>>
           ELSE /\ db' = [db EXCEPT !.last_time =
                              update_ping_time(@, row.subject, row.value, Clock)]
                /\ fired' = [fired EXCEPT ![f.idx] = Clock]
                /\ PingReturn(c, f, "fired", row.role, db'.last_time[f.idx])
    /\ UNCHANGED <<now, cogv>>

\* time passes between two pings
PingWait(d) ==
    /\ now + d <= PingMaxNow
    /\ now' = now + d
    /\ UNCHANGED <<db, pingv, cogv>>

\* ---------------------------------------------------------------- spec
\* StudyPartner.__init__ in a fresh process: the queue and the sessions are
\* loaded from storage (nothing).
InitCogOn(d) ==
    /\ queue = load_queue(d)
    /\ active = load_sessions(d)
    /\ gone = <<>>
    /\ chans = {}
    /\ nextChan = 1
    /\ nextMsg = 1
    /\ db = d
    /\ calls = [c \in CallIds |-> IdleFrame]
    /\ closes = [k \in LoggerIds |-> IdleClose]
    /\ sweep = IdleSweep
    /\ history = <<>>
    /\ now = 0
    /\ logsChan = FALSE
    /\ sink = <<>>
    /\ delreq = {}
    /\ ended = {}
    /\ dropped = {}
    /\ swept = NoTick
    /\ last = NoCall
    /\ prev = NoCall
    /\ waiting = <<>>
    /\ lastc = NoClose
    /\ boot = NoBoot
    /\ InitPings
    /\ tally = NoTally

InitCog == InitCogOn(EmptyDb)

\* what Spec explores: SpecMsgs messages, one close command at a time
Init ==
    /\ InitCog
    /\ track = FALSE
    /\ mode = [watch |-> FALSE, rec |-> FALSE, msgs |-> SpecMsgs, closes |-> 1,
                chans |-> MaxChans, tally |-> FALSE,
                memo |-> FALSE]

InitSeq ==
    /\ InitCog
    /\ track = TRUE
    /\ mode = [watch |-> FALSE, rec |-> FALSE, msgs |-> SpecMsgs, closes |-> 1,
                chans |-> MaxChans, tally |-> FALSE,
                memo |-> FALSE]

\* a command arrives
Commands ==
    \/ \E c \in CallIds, u \in Users, cached \in BOOLEAN : FindpartnerBegin(c, u, cached)
    \/ \E inGuild, isBot \in BOOLEAN : FindpartnerIgnored(inGuild, isBot)
    \/ \E k \in CloseIds, u \in Users, ch \in ChanIds \cup {0}, perm, replied \in BOOLEAN :
            CloseBegin(k, u, ch, perm, replied)

\* a message arrives
Messages == \E ch \in ChanIds, u \in Users : on_message(ch, u)

\* a suspended findpartner is resumed
PairingResumes ==
    \/ \E c \in CallIds : FetchOk(c)
    \/ \E c \in CallIds, cached \in BOOLEAN : FetchFail(c, cached)
    \/ \E c \in CallIds : GetOrCreateCategory(c)
    \/ \E c \in CallIds : CreateOk(c)
    \/ \E c \in CallIds, greeted \in BOOLEAN : Greet(c, greeted)
    \/ \E c \in CallIds : CreateFail(c)
    \/ \E c \in CallIds, replied \in BOOLEAN : WithdrawReply(c, replied)

\* the _log_session call of frame k is resumed
LogResumes(k) ==
    \/ \E ok \in BOOLEAN : LogHistory(k, ok)
    \/ \E ok \in BOOLEAN : LogMkChan(k, ok)
    \/ \E delivered \in BOOLEAN : LogSend(k, delivered)
    \/ \E ok \in BOOLEAN : LogDelete(k, ok)

\* a suspended command is resumed
CommandResumes == PairingResumes \/ \E k \in CloseIds : LogResumes(k)

\* the suspended loop is resumed
SweepResumes ==
    \/ \E ok \in BOOLEAN : SweepHistory(ok)
    \/ \E ok \in BOOLEAN : SweepNotice(ok)
    \/ LogResumes(0)

\* a channel is deleted, the loop ticks, time passes
Events ==
    \/ \E ch \in ChanIds : ExternalDelete(ch)
    \/ SweepBegin
    \/ \E d \in TickSteps : Tick(d)

Next == Commands \/ CommandResumes \/ Messages

\* the commands and the message listener under every interleaving at their
\* awaits
Spec == Init /\ [][Next]_vars

AllNext == Next \/ Events \/ SweepResumes

\* the same with the cleaner loop and channels deleted from outside
SpecAll == Init /\ [][AllNext]_vars

\* the commands one at a time, each run to its end, every returned
\* findpartner call recorded
SeqNext == (Quiet /\ Commands) \/ CommandResumes

SpecSeq == InitSeq /\ [][SeqNext]_vars

InitPair ==
    /\ InitCog
    /\ track = FALSE
    /\ mode = [watch |-> FALSE, rec |-> FALSE, msgs |-> 0, closes |-> 1, chans |-> MaxChans,
                tally |-> TRUE, memo |-> FALSE]

PairNext ==
    \/ \E c \in CallIds, u \in Users, cached \in BOOLEAN : FindpartnerBegin(c, u, cached)
    \/ PairingResumes

\* findpartner calls under every interleaving at their awaits, the enqueues
\* and the pops for registered sessions counted
SpecPair == InitPair /\ [][PairNext]_vars

\* the ids of the pairing channel an administrator has configured and of
\* another text channel of the guild
PairingChannel == 10
OtherChannel == 11

\* the cog constructed on a storage that names the pairing channel
InitGate ==
    /\ InitCogOn([EmptyDb EXCEPT !.pairing = PairingChannel])
    /\ track = TRUE
    /\ mode = [watch |-> FALSE, rec |-> FALSE, msgs |-> 0, closes |-> 1, chans |-> MaxChans,
                tally |-> FALSE, memo |-> FALSE]

GateNext ==
    \/ Quiet /\ \E c \in CallIds, u \in Users, ch \in {PairingChannel, OtherChannel},
                   cached \in BOOLEAN : FindpartnerIn(c, u, ch, cached)
    \/ PairingResumes

\* findpartner calls one at a time, sent in the pairing channel or in
\* another one, every returned call recorded
SpecGate == InitGate /\ [][GateNext]_vars

InitClose ==
    /\ InitCog
    /\ track = FALSE
    /\ mode = [watch |-> TRUE, rec |-> TRUE, msgs |-> MaxMsgs, closes |-> 1, chans |-> 1, tally |-> FALSE,
                memo |-> FALSE]

\* pairing without a failure and without a withdrawal
PairingOf(U) ==
    \/ \E c \in CallIds, u \in U, cached \in BOOLEAN :
            Quiet /\ ~InQueue(u, queue) /\ FindpartnerBegin(c, u, cached)
    \/ \E c \in CallIds : FetchOk(c)
    \/ \E c \in CallIds : GetOrCreateCategory(c)
    \/ \E c \in CallIds : CreateOk(c)
    \/ \E c \in CallIds, greeted \in BOOLEAN : Greet(c, greeted)

\* the channel of a session lets its two members write (lines 197-202)
MemberMessages ==
    \E ch \in DOMAIN active : \E u \in Range(active[ch].members) : on_message(ch, u)

CloseNext ==
    \/ PairingOf(Users)
    \/ Quiet /\ MemberMessages
    \/ Quiet /\ \E k \in CloseIds, u \in Users, ch \in ChanIds \cup {0}, perm, replied \in BOOLEAN :
            CloseBegin(k, u, ch, perm, replied)
    \/ \E k \in CloseIds : LogResumes(k)
    \/ \E ch \in ChanIds : ExternalDelete(ch)

\* sessions paired, then the close commands one at a time with the
\* messages of the members between them, channels deleted from outside at
\* any moment; every returned close command, every transcript sent and
\* every deletion requested recorded
SpecClose == InitClose /\ [][CloseNext]_vars

\* the cog some time after construction: users 1 and 2 have been paired in
\* channel 1, users 3 and 4 in channel 2, both at time 0, the queue is
\* empty, and the two findpartner calls have registered their sessions
\* (line 221) and are about to greet
InitPaired ==
    /\ queue = <<>>
    /\ active = ActivePut(ActivePut(<<>>, 1, NewMeta(2, 1, 0)), 2, NewMeta(4, 3, 0))
    /\ gone = <<>>
    /\ chans = {1, 2}
    /\ nextChan = 3
    /\ history = <<(<<>>), (<<>>)>>
    /\ nextMsg = 1
    /\ db = EmptyDb
    /\ calls = [c \in CallIds |->
                   IF c = 1
                   THEN [IdleFrame EXCEPT !.pc = "greet", !.author = 2, !.other = 1, !.chan = 1]
                   ELSE IF c = 2
                   THEN [IdleFrame EXCEPT !.pc = "greet", !.author = 4, !.other = 3, !.chan = 2]
                   ELSE IdleFrame]
    /\ closes = [k \in LoggerIds |-> IdleClose]
    /\ sweep = IdleSweep
    /\ now = 0
    /\ logsChan = FALSE
    /\ sink = <<>>
    /\ delreq = {}
    /\ ended = {}
    /\ dropped = {}
    /\ swept = NoTick
    /\ track = FALSE
    /\ last = NoCall
    /\ prev = NoCall
    /\ waiting = <<>>
    /\ lastc = NoClose
    /\ boot = NoBoot
    /\ InitPings
    /\ tally = NoTally

InitSweep ==
    /\ InitPaired
    /\ mode = [watch |-> TRUE, rec |-> FALSE, msgs |-> SweepMsgs, closes |-> 1, chans |-> 2, tally |-> FALSE,
                memo |-> FALSE]

\* a member sends close in the channel of the session
MemberCloses ==
    \E k \in CloseIds, ch \in DOMAIN active :
        \E u \in Range(active[ch].members) : CloseBegin(k, u, ch, FALSE, TRUE)

SweepNext ==
    \/ \E c \in CallIds, greeted \in BOOLEAN : Greet(c, greeted)
    \/ MemberMessages
    \/ LogResumes(0)
    \/ SweepBegin
    \/ \E ok \in BOOLEAN : SweepHistory(ok)
    \/ \E ok \in BOOLEAN : SweepNotice(ok)
    \/ \E d \in TickSteps : Tick(d)
    \/ \E ch \in ChanIds : ExternalDelete(ch)

InitMemo ==
    /\ InitPaired
    /\ mode = [watch |-> TRUE, rec |-> FALSE, msgs |-> MemoMsgs, closes |-> 1, chans |-> 2,
                tally |-> FALSE, memo |-> TRUE]

MemoNext ==
    \/ \E c \in CallIds, greeted \in BOOLEAN : Greet(c, greeted)
    \/ LogResumes(0)
    \/ SweepBegin
    \/ \E ok \in BOOLEAN : SweepHistory(ok)
    \/ \E ok \in BOOLEAN : SweepNotice(ok)
    \/ \E d \in TickSteps : Tick(d)

\* two sessions in which no member writes, the cleaner loop ticking as time
\* passes; every tick recorded with the last_ts of the judgements before it
SpecMemo == InitMemo /\ [][MemoNext]_vars

\* two sessions, the cleaner loop ticking as time passes, close commands
\* and messages of the members at any moment, channels deleted from
\* outside; every tick, every transcript sent and every closure recorded
SpecSweep == InitSweep /\ [][SweepNext]_vars

InitLive ==
    /\ InitPaired
    /\ mode = [watch |-> TRUE, rec |-> FALSE, msgs |-> LiveMsgs, closes |-> 1, chans |-> 2,
                tally |-> FALSE, memo |-> FALSE]

\* messages can still arrive: the time explored reaches AUTO_CLOSE_SECONDS
\* past the present
EarlyEnough == now + AUTO_CLOSE_SECONDS <= MaxNow

\* a tick of the loop from its start to its end
SweepSteps ==
    \/ SweepBegin
    \/ \E ok \in BOOLEAN : SweepHistory(ok)
    \/ \E ok \in BOOLEAN : SweepNotice(ok)
    \/ LogResumes(0)

LiveNext ==
    \/ EarlyEnough /\ \E c \in CallIds, greeted \in BOOLEAN : Greet(c, greeted)
    \/ EarlyEnough /\ MemberMessages
    \/ SweepSteps
    \/ Tick(AUTO_CLOSE_SECONDS)

\* tasks.loop(seconds=60) runs cleaner_loop again and again, each await of
\* an iteration returns or raises, no exception leaves the body of the
\* loop, and time passes
LiveFair == WF_vars(SweepSteps) /\ WF_vars(Tick(AUTO_CLOSE_SECONDS))

\* two sessions whose members write for a while and then stop, the cleaner
\* loop scheduled fairly as time passes
SpecLive == InitLive /\ [][LiveNext]_vars /\ LiveFair

InitResolve ==
    /\ InitPaired
    /\ mode = [watch |-> TRUE, rec |-> TRUE, msgs |-> ResolveMsgs, closes |-> 1, chans |-> 2,
                tally |-> FALSE, memo |-> FALSE]

\* who sends close: the members of the two sessions and somebody else
Closers == 1..(2 * MaxChans + 1)

ResolveNext ==
    \/ \E c \in CallIds, greeted \in BOOLEAN : Greet(c, greeted)
    \/ Quiet /\ \E k \in CloseIds, u \in Closers, ch \in ChanIds \cup {0}, perm, replied \in BOOLEAN :
            CloseBegin(k, u, ch, perm, replied)
    \/ \E k \in CloseIds : LogResumes(k)

\* two sessions, close commands one at a time sent by anybody in any
\* channel, every returned close command recorded
SpecResolve == InitResolve /\ [][ResolveNext]_vars

InitFrame ==
    /\ InitPaired
    /\ mode = [watch |-> TRUE, rec |-> FALSE, msgs |-> FrameMsgs, closes |-> 1, chans |-> 2,
                tally |-> FALSE, memo |-> TRUE]

FrameNext ==
    \/ \E c \in CallIds, greeted \in BOOLEAN : Greet(c, greeted)
    \/ MemberMessages
    \/ SweepSteps
    \/ \E d \in TickSteps : Tick(d)
    \/ \E ch \in ChanIds : ExternalDelete(ch)

\* two sessions, the cleaner loop ticking as time passes, members writing
\* and channels deleted from outside at any moment; every tick recorded
\* with the sessions that were not idle when it started
SpecFrame == InitFrame /\ [][FrameNext]_vars

InitPing ==
    /\ InitCog
    /\ track = FALSE
    /\ mode = [watch |-> FALSE, rec |-> FALSE, msgs |-> 0, closes |-> 0, chans |-> 0,
                tally |-> FALSE, memo |-> FALSE]

PingNext ==
    \/ \E c \in PingCallIds, via \in {"command", "shortcut"}, token \in Tokens,
          ch \in {HelpChannel, OtherChannel} : PingBegin(c, via, token, ch)
    \/ \E c \in PingCallIds, how \in {"sent", "replied", "raised"} : PingSent(c, how)
    \/ \E d \in PingSteps : PingWait(d)

\* users pinging by command, alias and shortcut, from the subject's channel
\* and from another, two invocations at a time, as time passes
SpecPing == InitPing /\ [][PingNext]_vars

InitRace ==
    /\ InitPaired
    /\ mode = [watch |-> TRUE, rec |-> FALSE, msgs |-> RaceMsgs, closes |-> MaxCloses,
                chans |-> 2, tally |-> FALSE,
                memo |-> FALSE]

RaceNext ==
    \/ \E c \in CallIds, greeted \in BOOLEAN : Greet(c, greeted)
    \/ MemberCloses
    \/ \E k \in LoggerIds : LogResumes(k)
    \/ SweepBegin
    \/ \E ok \in BOOLEAN : SweepHistory(ok)
    \/ \E ok \in BOOLEAN : SweepNotice(ok)
    \/ Tick(AUTO_CLOSE_SECONDS)

\* two sessions, close commands of their members and the cleaner loop
\* under every interleaving at their awaits
SpecRace == InitRace /\ [][RaceNext]_vars

\* -------------------------------------------------------------- claims
\* the sessions of registry a that user u is a member of
SessionsOf(a, u) == {ch \in DOMAIN a : u \in Range(a[ch].members)}

\* C1: in every reachable state, also when findpartner calls interleave at
\* their awaits, no participant is a member of more than one active session.
C1_AtMostOneSession == \A u \in Users : Cardinality(SessionsOf(active, u)) <= 1

\* C2: in every reachable state no participant is both in the waiting queue
\* and a member of an active session.
C2_NotQueuedAndActive == \A u \in Users : ~(InQueue(u, queue) /\ IsActiveMember(u))

\* C3: in every reachable state a participant occurs at most once in the
\* waiting queue.
C3_QueueUnique == \A u \in Users : Count(queue, u) <= 1

\* a participant is queued by one call of theirs while another call of
\* theirs waits for the member it popped
C3_Witness == \E c \in CallIds : calls[c].pc = "fetch" /\ InQueue(calls[c].author, queue)

\* the waiting queue never holds more than one participant: findpartner
\* appends only when it finds the queue empty
QueueAtMostOne == Len(queue) <= 1

\* the participants other than the requester that were waiting when the
\* last call was made and that it did not drop as unresolvable
WaitingForLast == Without(last.w0, last.stale \cup {last.author})

\* C4: FIFO pairing: a request that pairs, pairs with the participant who
\* has been waiting longest, that is who was enqueued first and has since
\* neither withdrawn nor been paired.
C4_PairsWithLongestWaiting ==
    (last.out = "PAIRED" /\ WaitingForLast # <<>>) => last.mem[2] = Head(WaitingForLast)

\* X called findpartner from an empty queue and no session, then Y called
Scenario_XThenY ==
    /\ prev.out # "NONE"
    /\ prev.q0 = <<>>
    /\ prev.a0 = <<>>
    /\ last.author # prev.author

\* C5 as claimed: after X then Y from the empty state, with Y paired, the
\* queue is empty and the one active session has the members [X, Y].
C5_MembersXY ==
    (Scenario_XThenY /\ last.out = "PAIRED") =>
        /\ prev.out = "QUEUED"
        /\ last.q1 = <<>>
        /\ Cardinality(DOMAIN last.a1) = 1
        /\ \A ch \in DOMAIN last.a1 : last.a1[ch].members = <<prev.author, last.author>>

\* C5 amended: after X then Y from the empty state, X is queued; when X is
\* resolved as a member and the channel is created, Y is paired, the queue
\* is empty and the one active session has the members [Y, X], the
\* requester first.
C5_MembersYX ==
    Scenario_XThenY =>
        /\ prev.out = "QUEUED"
        /\ prev.q1 = <<prev.author>>
        /\ (last.retries = 0 /\ last.out # "FAILED") => last.out = "PAIRED"
        /\ last.out = "PAIRED" =>
            /\ last.q1 = <<>>
            /\ Cardinality(DOMAIN last.a1) = 1
            /\ \A ch \in DOMAIN last.a1 : last.a1[ch].members = <<last.author, prev.author>>

C5_Witness == Scenario_XThenY /\ last.out = "PAIRED"

\* the same participant, in no active session, called findpartner twice in
\* a row
Scenario_Twice ==
    /\ prev.out # "NONE"
    /\ prev.author = last.author
    /\ SessionsOf(prev.a0, prev.author) = {}

\* C6 as claimed: two calls in a row by a participant in no session give
\* QUEUED then TOGGLED_OFF and an empty queue when nothing else was queued,
\* and whenever they give QUEUED then TOGGLED_OFF the queue is again what it
\* was before the first call.
C6_ToggleRestores ==
    Scenario_Twice =>
        /\ prev.q0 = <<>> =>
            (prev.out = "QUEUED" /\ last.out = "TOGGLED_OFF" /\ last.q1 = <<>>)
        /\ (prev.out = "QUEUED" /\ last.out = "TOGGLED_OFF") => last.q1 = prev.q0

\* C6 amended: the second call removes the caller and nothing else; the
\* queue is again what it was before the first call when the first call
\* dropped no head it could not resolve.
C6_ToggleRemovesCaller ==
    Scenario_Twice =>
        /\ prev.q0 = <<>> =>
            (prev.out = "QUEUED" /\ last.out = "TOGGLED_OFF" /\ last.q1 = <<>>)
        /\ prev.out = "QUEUED" =>
            /\ last.out = "TOGGLED_OFF"
            /\ last.q0 = prev.q1
            /\ last.q1 = SelectSeq(prev.q1, LAMBDA x : x # last.author)
            /\ prev.retries = 0 => last.q1 = prev.q0

C6_Witness == Scenario_Twice /\ prev.out = "QUEUED" /\ last.out = "TOGGLED_OFF"

\* C7: a findpartner call by a member of an active session returns the
\* already-active outcome and leaves the queue, the registry and the storage
\* as they were.
C7_AlreadyActiveNoChange ==
    /\ (last.out # "NONE" /\ SessionsOf(last.a0, last.author) # {}) =>
            last.out = "ALREADY_ACTIVE"
    /\ last.out = "ALREADY_ACTIVE" =>
            (last.q1 = last.q0 /\ last.a1 = last.a0 /\ last.d1 = last.d0)

C7_Witness == last.out = "ALREADY_ACTIVE" /\ last.q0 # <<>>

\* C8: when the channel cannot be created after a waiting participant was
\* popped, no session is created and the queue is again what it was before
\* the request.
C8_FailureRestoresQueue ==
    last.out = "FAILED" => (last.q1 = last.q0 /\ last.a1 = last.a0)

C20_PersistedQueueMirrors == last.out # "NONE" => last.d1.queue = last.q1

\* ------------------------------------------------------ close, claims
\* the close command that returned last found a session
ClosedSid == lastc.out # "NONE" /\ lastc.sid # 0

\* the members of the session it found, as the command found them
ClosedMembers == Range(lastc.a0[lastc.sid].members)

\* the messages cached in that session when the command arrived
ClosedCached == lastc.a0[lastc.sid].messages

\* ... and its invoker was neither a member nor allowed to manage channels
ClosedByStranger == ClosedSid /\ lastc.author \notin ClosedMembers /\ ~lastc.perm

\* C11: a close command of somebody who is no member of the session it
\* resolves to and has no manage_channels permission is refused, and leaves
\* the registry (the session, its members, its messages), the transcripts
\* sent and the channels as they were.
C11_UnauthorizedChangesNothing ==
    ClosedByStranger =>
        /\ lastc.out = "UNAUTHORIZED"
        /\ lastc.a1 = lastc.a0
        /\ lastc.s1 = lastc.s0
        /\ lastc.c1 = lastc.c0
        /\ lastc.r1 = lastc.r0

C11_Witness ==
    /\ ClosedByStranger
    /\ lastc.out = "UNAUTHORIZED"
    /\ ClosedCached # <<>>

\* the close command that returned last was a member's and went through
ClosedByMember == ClosedSid /\ lastc.out = "CLOSED" /\ lastc.author \in ClosedMembers

\* it sent exactly one transcript
ClosedDelivered == Len(lastc.s1) = Len(lastc.s0) + 1

\* the transcript it sent
ClosedTranscript == lastc.s1[Len(lastc.s1)]

\* a session with exactly two cached messages, closed by a member, its
\* transcript sent
Scenario_TwoCaptured == ClosedByMember /\ Len(ClosedCached) = 2 /\ ClosedDelivered

TwoCachedLines == <<Line(ClosedCached[1], "cached"), Line(ClosedCached[2], "cached")>>

OldestFirst(lines) == \A i, j \in 1..Len(lines) : i < j => lines[i].id < lines[j].id

\* C13: the lines of every transcript sent are in the order of their
\* messages, oldest first, whether cached or read from the channel.
C13_TranscriptOldestFirst == \A i \in 1..Len(sink) : OldestFirst(sink[i].lines)

\* the invoker of the close command that returned last was a member of the
\* session it found, or allowed to manage channels
ClosedByAuthorized == ClosedSid /\ (lastc.author \in ClosedMembers \/ lastc.perm)

\* C15: when a close command of a member or of somebody with
\* manage_channels has returned, the session is not in the registry,
\* whatever became of the logs channel, of the send and of the deletion.
C15_ClosedIsAbsent ==
    ClosedByAuthorized =>
        /\ lastc.out = "CLOSED"
        /\ lastc.sid \notin DOMAIN lastc.a1
        /\ lastc.sid \notin DOMAIN active

\* no transcript was sent, and the channel is still there
C15_Witness ==
    /\ ClosedByAuthorized
    /\ lastc.s1 = lastc.s0
    /\ lastc.sid \in lastc.c1

\* C16: a closure that has run to its end has asked for the deletion of the
\* channel, if the channel is there.
C16_ClosureDeletesChannel ==
    \A e \in ended : e[1] \in chans => e[1] \in delreq

\* ------------------------------------------------------- sweep, claims
\* the transcripts sent for session sid
TranscriptsOf(sid) == {i \in 1..Len(sink) : sink[i].sid = sid}

\* lastActivityAt of a judged session: the time of its last recorded
\* message, without one the time of its creation
LastRecorded(j) == IF j.msgs # <<>> THEN j.msgs[Len(j.msgs)].at ELSE j.created

C17_Witness301 ==
    /\ swept.done
    /\ \E j \in swept.judged : swept.at - j.last = 301 /\ j.close

\* C18: a session that a tick finds without its channel, and that has
\* cached messages, has had a transcript sent.
C18_GoneChannelStillLogged ==
    \A d \in dropped : d[2] > 0 => TranscriptsOf(d[1]) # {}

\* the sessions a tick has removed for a missing channel
DroppedSids == {d[1] : d \in dropped}

\* the sessions the running or last tick has judged
JudgedSids == {j.sid : j \in swept.judged}

\* C19: a tick looks at no session but those of the registry at its start,
\* and when it is over it has looked at each of them, judged its idle time
\* unless its channel is gone, and those judged idle are out of the
\* registry, whatever failed on the way.
C19_EverySessionEvaluated ==
    /\ swept.seen \subseteq swept.start
    /\ swept.done =>
          /\ swept.seen = swept.start
          /\ swept.start \subseteq JudgedSids \cup DroppedSids
          /\ \A j \in swept.judged : j.close => j.sid \notin DOMAIN active

\* a tick over two idle sessions: for the first the transcript was not sent
\* and the deletion of the channel failed, the second was closed with its
\* transcript
C19_Witness ==
    /\ swept.done
    /\ swept.start = {1, 2}
    /\ \A j \in swept.judged : j.close
    /\ JudgedSids = {1, 2}
    /\ 1 \in delreq /\ 1 \in chans /\ TranscriptsOf(1) = {}
    /\ TranscriptsOf(2) # {}

\* C14: of no session more than one transcript is sent.
C14_AtMostOneTranscript ==
    \A sid \in ChanIds : Cardinality(TranscriptsOf(sid)) <= 1

\* ---------------------------------------------------------- restart
\* _cleanup_category_for_guild as setup calls it: every channel of the
\* category of the configured channel is deleted but that channel.  With
\* no config (what _get_config always returns) category is None,
\* "category.channels" raises outside the try of lines 99-108, setup
\* swallows it, and no channel is deleted.
cleanup_category(chs, conf) == IF conf = NoConfig THEN chs ELSE {}

\* The process is restarted and setup runs: a new StudyPartner is
\* constructed, its queue and its registry are what storage yields, the
\* handlers that were suspended are gone with the old process, and the
\* leftover channels are cleaned up.  Channels, their histories and what
\* was sent to the logs channel are the platform's and stay.
Restart ==
    /\ boot.n < MaxBoots
    /\ queue' = load_queue(db)
    /\ active' = load_sessions(db)
    /\ gone' = <<>>
    /\ calls' = [c \in CallIds |-> IdleFrame]
    /\ closes' = [k \in LoggerIds |-> IdleClose]
    /\ sweep' = IdleSweep
    /\ chans' = cleanup_category(chans, get_config)
    /\ boot' = [n |-> boot.n + 1, q0 |-> queue, q1 |-> load_queue(db),
                a0 |-> active, a1 |-> load_sessions(db),
                c0 |-> chans, c1 |-> cleanup_category(chans, get_config),
                e0 |-> {e[1] : e \in ended}]
    /\ UNCHANGED <<nextChan, nextMsg, db, history, now, logsChan, sink, delreq,
                   ended, dropped, swept, mode, track, last, prev, waiting, lastc, tally,
                   pingv>>

InitBoot ==
    /\ InitCog
    /\ track = FALSE
    /\ mode = [watch |-> TRUE, rec |-> FALSE, msgs |-> BootMsgs, closes |-> 1,
                chans |-> MaxChans, tally |-> FALSE,
                memo |-> FALSE]

BootNext ==
    \/ PairingOf(Users)
    \/ Quiet /\ MemberMessages
    \/ Quiet /\ MemberCloses
    \/ \E k \in CloseIds : LogResumes(k)
    \/ Restart

\* sessions paired, member messages and close commands of members one at
\* a time, and a restart of the process at any moment
SpecBoot == InitBoot /\ [][BootNext]_vars

\* ------------------------------------------------- persistence, claims
\* the sessions of a registry as storage would hold them: channel id,
\* members and messages in order
Persistable(a) ==
    {[sid |-> s, members |-> a[s].members, messages |-> a[s].messages] :
        s \in DOMAIN a}

\* C21: whenever no handler is suspended, the sessions storage holds are the
\* sessions of the registry, with the same members and the same messages in
\* the same order.
C21_PersistedSessionsMirror == Quiet => db.sessions = Persistable(active)

\* the findpartner call that returned last told its caller they are queued,
\* and its write of the queue left storage as it was, without that queue
EnqueueWriteFailed ==
    /\ last.out = "QUEUED"
    /\ save_queue(last.d0, last.q1) = last.d0
    /\ last.d0.queue # last.q1

\* C23: a findpartner call whose write of the queue failed has committed
\* nothing: queue and registry are what they were when the call arrived (and
\* the caller is told of the failure, not that they are queued).
C23_FailedWriteNotCommitted ==
    EnqueueWriteFailed => last.q1 = last.q0 /\ last.a1 = last.a0

\* C22: the queue survives a restart: the queue of the new cog is the
\* queue the old cog held (and had saved), same users in the same order.
C22_QueueRoundTrips == boot.n > 0 => boot.q1 = boot.q0

\* C24: a session that was in the registry with its channel in place when
\* the process went down is in the registry of the new cog with the same
\* messages, and its channel is still in place after setup's cleanup.
C24_RestartKeepsSessions ==
    boot.n > 0 =>
        \A sid \in DOMAIN boot.a0 :
            sid \in boot.c0 =>
                /\ sid \in DOMAIN boot.a1
                /\ boot.a1[sid].messages = boot.a0[sid].messages
                /\ sid \in boot.c1

\* the sessions whose closure by a close command or by the cleaner loop is
\* over
ClosedSids == {e[1] : e \in ended}

\* C25: a session whose closure is over is in the registry in no later
\* state, a restart of the process included.
C25_ClosureIsTerminal == \A sid \in ClosedSids : sid \notin DOMAIN active

\* session 1 was closed, then the process was restarted, and after the
\* restart a new session was registered
C25_Witness ==
    /\ boot.n > 0
    /\ 1 \in boot.e0
    /\ DOMAIN active = {2}
    /\ 2 \notin DOMAIN boot.a0

\* ------------------------------------------- capture and closure, claims
\* C26: from the moment _log_session has started on a session, no message
\* is appended to the messages of that session: as long as the session is
\* in the registry they are the messages the closure found.
C26_NoAppendOnceClosing ==
    \A k \in LoggerIds :
        (closes[k].pc # "idle" /\ closes[k].sid \in DOMAIN active) =>
            CachedIds(active[closes[k].sid]) = closes[k].cached

\* the ids of the messages a transcript has a line for
LineIds(t) == {t.lines[j].id : j \in 1..Len(t.lines)}

\* C27: every message on_message appended to a session before the session
\* left the registry has a line in the transcript sent for that session.
C27_CapturedIsDelivered ==
    \A i \in 1..Len(sink) : sink[i].captured \subseteq LineIds(sink[i])

\* C28: the last_ts by which a tick judges a session is not earlier than
\* the last_ts by which the latest tick before it judged that session.
C28_LastActivityNeverDecreases ==
    \A j \in swept.judged :
        j.sid \in DOMAIN swept.before => j.last >= swept.before[j.sid]

\* ------------------------------------------------------ pairing, claims
\* C29: under every interleaving of findpartner calls, no user is the
\* popped partner of more sessions than they were enqueued: one entry of
\* the queue is consumed by one pairing at most.
C29_OneEntryOnePairing == \A u \in Users : tally.deq[u] <= tally.enq[u]

\* two calls suspended at the same time, each with a session registered
\* for the partner it popped, and that partner is the same user, who was
\* enqueued twice
C29_Witness ==
    /\ calls[1].pc = "greet" /\ calls[2].pc = "greet"
    /\ calls[1].other = calls[2].other
    /\ tally.deq[calls[1].other] = 2

\* ----------------------------------------------------- liveness, claims
\* session sid is in the registry, its channel exists, and no message
\* arrives in it any more
SettledSession(sid) == sid \in DOMAIN active /\ sid \in chans /\ ~EarlyEnough

\* the cleaner loop has closed session sid and it is out of the registry
SweptOut(sid) == <<sid, "sweep">> \in ended /\ sid \notin DOMAIN active

\* C30: with the cleaner loop scheduled fairly, a session of the registry
\* whose channel exists and in which no message arrives any more is
\* eventually closed by the loop and out of the registry.
C30_IdleSessionEventuallyClosed ==
    \A sid \in ChanIds : SettledSession(sid) ~> SweptOut(sid)

\* both sessions were closed by the loop after the messages had stopped,
\* the first with a member's message in its transcript
C30_Witness ==
    /\ ~EarlyEnough
    /\ SweptOut(1) /\ SweptOut(2)
    /\ \E i \in 1..Len(sink) : sink[i].sid = 1 /\ sink[i].captured # {}

\* ---------------------------------------------------- transcript, claims
\* C31: in no transcript sent two lines render the same message: a message
\* that is both cached and in the channel history read by the closure has
\* one line.
C31_OneLinePerMessage ==
    \A i \in 1..Len(sink) :
        \A j, k \in 1..Len(sink[i].lines) :
            sink[i].lines[j].id = sink[i].lines[k].id => j = k

\* a transcript sent with a line rendered from the cache, whose message is
\* also in the history of the channel, and a line read from that history
C31_Witness ==
    \E i \in 1..Len(sink) :
        /\ \E j \in 1..Len(sink[i].lines) :
              /\ sink[i].lines[j].src = "cached"
              /\ \E n \in 1..Len(history[sink[i].sid]) :
                    history[sink[i].sid][n].id = sink[i].lines[j].id
        /\ \E j \in 1..Len(sink[i].lines) : sink[i].lines[j].src = "history"

\* the sessions the invoker of the close command that returned last was a
\* member of when the command arrived
ClosedMine == {s \in DOMAIN lastc.a0 : lastc.author \in Range(lastc.a0[s].members)}

\* C32: the close command that returned last took as its target the
\* session of the channel it was sent in, if that channel was the channel
\* of a session; else a session its invoker was a member of; and with
\* neither it found no session and changed nothing.  A target it reports
\* closed is out of the registry.
C32_ChannelThenMembership ==
    lastc.out # "NONE" =>
        /\ IF lastc.ch \in DOMAIN lastc.a0 THEN lastc.sid = lastc.ch
           ELSE IF ClosedMine # {} THEN lastc.sid \in ClosedMine
           ELSE /\ lastc.out = "NOT_FOUND"
                /\ lastc.a1 = lastc.a0
                /\ lastc.s1 = lastc.s0
                /\ lastc.c1 = lastc.c0
                /\ lastc.r1 = lastc.r0
        /\ lastc.out = "CLOSED" => lastc.sid \notin DOMAIN lastc.a1

\* a member of session 2 who may manage channels sent close in the channel
\* of session 1: session 1 was closed, session 2 stays
C32_Witness ==
    /\ lastc.out = "CLOSED"
    /\ lastc.ch = 1
    /\ 2 \in ClosedMine
    /\ lastc.sid = 1
    /\ DOMAIN lastc.a1 = {2}

\* a member of session 2 sent close outside the session channels
C32_WitnessElsewhere ==
    /\ lastc.out = "CLOSED"
    /\ lastc.ch = 0
    /\ lastc.sid = 2
    /\ DOMAIN lastc.a1 = {1}

\* ------------------------------------------------ pairing channel, claims
\* C33: a findpartner call sent in another channel than the pairing
\* channel storage names leaves the queue and the registry as they were.
C33_OtherChannelChangesNothing ==
    (last.out # "NONE" /\ last.d0.pairing # NoChannel /\ last.ch # last.d0.pairing) =>
        last.q1 = last.q0 /\ last.a1 = last.a0

\* C34: every session of the registry has two members, and they are two
\* different users.
C34_TwoDistinctMembers ==
    \A sid \in DOMAIN active :
        /\ Len(active[sid].members) = 2
        /\ active[sid].members[1] # active[sid].members[2]

\* a session is registered for a requester whose call is still suspended,
\* and who has meanwhile sent findpartner again and sits in the queue
C34_Witness ==
    \E c \in CallIds :
        /\ calls[c].pc = "greet"
        /\ calls[c].chan \in DOMAIN active
        /\ calls[c].author \in Range(queue)

\* ----------------------------------------------------- withdrawal, claims
\* C35: a findpartner call that withdrew its caller from the queue was sent
\* by a queued user, left in the queue everybody else who was in it, in the
\* same order, and left the registry as it was.
C35_WithdrawalRemovesOnlyCaller ==
    last.out = "TOGGLED_OFF" =>
        /\ last.author \in Range(last.q0)
        /\ last.q1 = SelectSeq(last.q0, LAMBDA x : x # last.author)
        /\ last.a1 = last.a0

\* a withdrawal while a session is active
C35_Witness ==
    /\ last.out = "TOGGLED_OFF"
    /\ last.a0 # <<>>
    /\ last.q0 = <<last.author>>

\* ------------------------------------------------- sweep frame, claims
\* session sid is left as it is by the step: in the registry, with the
\* same members and messages, its channel in place
LeftAlone(sid) ==
    /\ sid \in DOMAIN active'
    /\ active'[sid] = active[sid]
    /\ sid \in chans'

\* C36: no step of the cleaner loop changes the queue, and none changes a
\* session of the registry whose channel exists and that had been idle for
\* less than AUTO_CLOSE_SECONDS when the tick started, or that was
\* registered after the tick started.
C36_SweepFrame ==
    [][SweepSteps =>
          /\ queue' = queue
          /\ \A sid \in DOMAIN active \cap chans :
                (sid \in swept'.fresh \/ sid \notin swept'.start) => LeftAlone(sid)]_vars

\* a tick that closed session 1, idle since its creation, and left session
\* 2, in which a member had written, as it was
C36_Witness ==
    /\ swept.done
    /\ swept.start = {1, 2}
    /\ swept.fresh = {2}
    /\ <<1, "sweep">> \in ended
    /\ 2 \in DOMAIN active /\ active[2].messages # <<>> /\ 2 \in chans

\* ---------------------------------------------------- ping cooldown, claims
\* the invocation that returned last began less than PING_COOLDOWN seconds
\* after its ping had mentioned its role
BeganOnCooldown ==
    /\ lastp.idx # NoPing
    /\ lastp.seen # NoFire
    /\ lastp.began < lastp.seen + PING_COOLDOWN

====
